---- MODULE Spec2Model ----
(***************************************************************************)
(* go-metrics-prometheus: the bridge that republishes the metrics of a     *)
(* go-metrics registry as gauges of a Prometheus registry                  *)
(* (src/prometheusmetrics.go, the exporter with option setters).           *)
(*                                                                         *)
(* Strings are sequences of one-character strings, so that the key         *)
(* normalizers and fmt.Sprintf are computed character by character.        *)
(* float64 values are the integers they hold.                              *)
(***************************************************************************)
EXTENDS Integers, Sequences, FiniteSets, TLC

(***************************************************************************)
(* Bounds of the model.                                                    *)
(***************************************************************************)
MaxTicks == 3
MaxManual == 1
MaxAppSteps == 2
MaxLen == 3
MaxSamples == 2
MaxSetters == 3

(***************************************************************************)
(* Program constants.                                                      *)
(***************************************************************************)
DefaultFlushInterval == 15
CustomConverterValue == 12345
TickBuffer == 1

(***************************************************************************)
(* Strings.                                                                *)
(***************************************************************************)
UpperCase == <<"A", "B", "C", "D", "E", "F", "G", "H", "I", "J", "K", "L", "M",
               "N", "O", "P", "Q", "R", "S", "T", "U", "V", "W", "X", "Y", "Z">>
LowerCase == <<"a", "b", "c", "d", "e", "f", "g", "h", "i", "j", "k", "l", "m",
               "n", "o", "p", "q", "r", "s", "t", "u", "v", "w", "x", "y", "z">>

\* strings.Replace(key, old, new, -1) for one-character old and new
Replace(key, old, new) ==
    [i \in 1..Len(key) |-> LET ch == key[i] IN IF ch = old THEN new ELSE ch]

UpperToLower ==
    [ch \in {UpperCase[i] : i \in 1..Len(UpperCase)} |->
        LowerCase[CHOOSE i \in 1..Len(UpperCase) : UpperCase[i] = ch]]

ToLowerChar(ch) == IF ch \in DOMAIN UpperToLower THEN UpperToLower[ch] ELSE ch

\* strings.ToLower
ToLower(key) == [i \in 1..Len(key) |-> LET ch == key[i] IN ToLowerChar(ch)]

\* mutant: '.' is replaced by '-', after '-' has been replaced
DefaultKeyNormalizerDotToDash(key) ==
    Replace(Replace(Replace(Replace(key, " ", "_"), "-", "_"), ".", "-"), "=", "_")

DefaultKeyNormalizer(key) ==
    Replace(Replace(Replace(Replace(key, " ", "_"), ".", "_"), "-", "_"), "=", "_")

LowerCaseKeyNormalizer(key) == ToLower(DefaultKeyNormalizer(key))

\* c.keyNormalizer(key): the configured Normalizer applied
Normalize(normalizer, key) ==
    CASE normalizer = "DefaultKeyNormalizer" -> DefaultKeyNormalizer(key)
      [] normalizer = "LowerCaseKeyNormalizer" -> LowerCaseKeyNormalizer(key)

\* fmt.Sprintf("%s_%s_%s", a, b, c)
Sprintf3(a, b, c) == a \o <<"_">> \o b \o <<"_">> \o c

(***************************************************************************)
(* Metrics of the source registry.  A metric object is [kind, v]: v is the *)
(* count of a Counter, the value of a Gauge or GaugeFloat64, the sample    *)
(* sequence of a Histogram's snapshot, the rates [Rate1, RateMean] of a    *)
(* Meter's or Timer's snapshot.  Healthcheck is a kind the default         *)
(* converter does not know.                                                *)
(***************************************************************************)
Ok(x) == [val |-> x, err |-> "nil"]

\* 0.0, fmt.Errorf("metric '%s' has unknown type: %s", name, reflect.TypeOf(i)):
\* err is the error, metric and type the operands of its message
Errorf(name, m) == [val |-> 0, err |-> "unknown type", metric |-> name, type |-> m.kind]

\* mutant: an empty Histogram converts to 0 without an error
DefaultMetricConverterZero(name, m) ==
    CASE m.kind = "Counter" -> Ok(m.v)
      [] m.kind = "Gauge" -> Ok(m.v)
      [] m.kind = "GaugeFloat64" -> Ok(m.v)
      [] m.kind = "Histogram" -> IF Len(m.v) > 0 THEN Ok(m.v[Len(m.v)]) ELSE Ok(0)
      [] m.kind = "Meter" -> Ok(m.v.Rate1)
      [] m.kind = "Timer" -> Ok(m.v.Rate1)
      [] OTHER -> Errorf(name, m)

\* mutant: the first sample of a Histogram in place of the last
DefaultMetricConverterFirstSample(name, m) ==
    CASE m.kind = "Counter" -> Ok(m.v)
      [] m.kind = "Gauge" -> Ok(m.v)
      [] m.kind = "GaugeFloat64" -> Ok(m.v)
      [] m.kind = "Histogram" -> IF Len(m.v) > 0 THEN Ok(m.v[1]) ELSE Errorf(name, m)
      [] m.kind = "Meter" -> Ok(m.v.Rate1)
      [] m.kind = "Timer" -> Ok(m.v.Rate1)
      [] OTHER -> Errorf(name, m)

DefaultMetricConverter(name, m) ==
    CASE m.kind = "Counter" -> Ok(m.v)
      [] m.kind = "Gauge" -> Ok(m.v)
      [] m.kind = "GaugeFloat64" -> Ok(m.v)
      [] m.kind = "Histogram" ->
            IF Len(m.v) > 0 THEN Ok(m.v[Len(m.v)]) ELSE Errorf(name, m)
      [] m.kind = "Meter" -> Ok(m.v.Rate1)
      [] m.kind = "Timer" -> Ok(m.v.Rate1)
      [] OTHER -> Errorf(name, m)

\* the converter of TestPrometheusCounterGetUpdatedWithCustomConverter
CustomConverter(name, m) == Ok(CustomConverterValue)

\* mutant: the Converter option is ignored, the default table always used
ConvertDefaultOnly(converter, name, m) == DefaultMetricConverter(name, m)

\* c.converter(name, i): the configured MetricConverter applied
Convert(converter, name, m) ==
    CASE converter = "DefaultMetricConverter" -> DefaultMetricConverter(name, m)
      [] converter = "CustomConverter" -> CustomConverter(name, m)

(***************************************************************************)
(* Construction: NewPrometheusProvider and its option setters.  A setter   *)
(* is a record naming the option; "Reject" is a caller's setter that       *)
(* returns an error.                                                       *)
(***************************************************************************)
ConverterOpt(converter) == [opt |-> "Converter", arg |-> converter]
KeyNormalizerOpt(normalizer) == [opt |-> "KeyNormalizer", arg |-> normalizer]
FlushRate(duration) == [opt |-> "FlushRate", arg |-> duration]
RejectOpt == [opt |-> "Reject", arg |-> 0]

\* s(conf): the setter applied; [c, err].  NewPrometheusProvider's result is
\* [conf, err, applied]: applied are the setters it has called, in order.
ApplySetter(s, c) ==
    CASE s.opt = "Converter" -> [c |-> [c EXCEPT !.converter = s.arg], err |-> "nil"]
      [] s.opt = "KeyNormalizer" -> [c |-> [c EXCEPT !.keyNormalizer = s.arg], err |-> "nil"]
      [] s.opt = "FlushRate" -> [c |-> [c EXCEPT !.FlushInterval = s.arg], err |-> "nil"]
      [] s.opt = "Reject" -> [c |-> c, err |-> "rejected"]

\* mutant: a setter's error is dropped and the loop goes on
RECURSIVE ApplySettersSkipFailing(_, _)
ApplySettersSkipFailing(setters, c) ==
    IF setters = <<>> THEN [conf |-> c, err |-> "nil", applied |-> <<>>]
    ELSE LET r == ApplySetter(Head(setters), c)
             rest == ApplySettersSkipFailing(Tail(setters), r.c)
         IN [rest EXCEPT !.applied = <<Head(setters)>> \o @]

RECURSIVE ApplySetters(_, _)
ApplySetters(setters, c) ==
    IF setters = <<>> THEN [conf |-> c, err |-> "nil", applied |-> <<>>]
    ELSE LET r == ApplySetter(Head(setters), c)
         IN IF r.err # "nil"
            THEN [conf |-> "nil", err |-> r.err, applied |-> <<Head(setters)>>]
            ELSE LET rest == ApplySetters(Tail(setters), r.c)
                 IN [rest EXCEPT !.applied = <<Head(setters)>> \o @]

NewPrometheusProvider(namespace, subsystem, setters) ==
    ApplySetters(setters,
                 [Namespace |-> namespace,
                  Subsystem |-> subsystem,
                  FlushInterval |-> DefaultFlushInterval,
                  converter |-> "DefaultMetricConverter",
                  keyNormalizer |-> "DefaultKeyNormalizer"])

(***************************************************************************)
(* The inputs: the configuration of the tests, the options a caller may    *)
(* pass, and the metrics the host application owns.                        *)
(***************************************************************************)
TestNamespace == <<"t", "e", "s", "t">>
TestSubsystem == <<"s", "u", "b", "s", "y", "s">>

NameCounter == <<"C", "n">>
NameGauge == <<"c", "n">>
NameHistogram == <<"a", ".", "b">>
NameHealthcheck == <<"a", "-", "b">>
Names == {NameCounter, NameGauge, NameHistogram, NameHealthcheck}

KindOf(name) ==
    CASE name = NameCounter -> "Counter"
      [] name = NameGauge -> "Gauge"
      [] name = NameHistogram -> "Histogram"
      [] name = NameHealthcheck -> "Healthcheck"

\* metrics.NewCounter(), NewGauge(), NewHistogram(...), NewHealthcheck(...)
NewMetric(kind) == [kind |-> kind, v |-> IF kind = "Histogram" THEN <<>> ELSE 0]

\* the application's updates carry the arguments of the tests, in their order
Updates == <<2, 13>>

\* A run: the options passed to NewPrometheusProvider and the metrics the
\* application has.  The options are those of the tests, a zero interval and a
\* setter that rejects; the metrics are a counter, a gauge, a histogram beside a
\* metric of an unknown kind, and pairs of names that one normalizer maps to one
\* identifier.
Run(setters, names) == [setters |-> setters, owned |-> names]

Runs ==
    { Run(<<>>, {NameCounter}),
      Run(<<FlushRate(1)>>, {NameGauge}),
      Run(<<FlushRate(1)>>, {NameHistogram, NameHealthcheck}),
      Run(<<FlushRate(1), KeyNormalizerOpt("LowerCaseKeyNormalizer")>>,
          {NameCounter, NameGauge}),
      Run(<<FlushRate(1), ConverterOpt("CustomConverter")>>,
          {NameHistogram, NameHealthcheck}),
      Run(<<FlushRate(0)>>, {NameCounter}),
      Run(<<FlushRate(1), RejectOpt>>, {NameCounter}) }

Procs == {"sched", "manual"}
NoName == <<>>
NoGauge == [fqName |-> <<>>, help |-> <<>>]

VARIABLES
    conf,          \* the PrometheusConfig NewPrometheusProvider returned
    owned,         \* the names of the metrics the application has
    metric,        \* the application's metric objects, by name
    registry,      \* c.registry: the names registered in the source registry
    gauges,        \* c.gauges: raw key -> the gauge (its fully-qualified name)
    promRegistry,  \* c.promRegistry: the descriptors registered, [fqName, help]
    promValue,     \* the value each registered gauge exposes, by fqName
    pc,            \* where each thread of execution is
    todo,          \* the entries Each has still to visit, per thread
    cur,           \* the name the callback is at, per thread
    value,         \* the converted value the callback holds, per thread
    g,             \* the gauge gaugeFromNameAndValue holds, per thread
    panicked,      \* MustRegister panicked: the process is gone
    started,       \* how UpdatePrometheusMetrics was called: "no", "go", "inline"
    tickChan,      \* the ticks buffered in time.Tick's channel
    appSteps,      \* the application's updates so far
    manualCalls,   \* the caller's own calls of UpdatePrometheusMetricsOnce so far
    recording,     \* whether the history below is kept
    hist,          \* history: what has happened so far
    call,          \* a call of one of the package's functions: [fn, arg, done]
    result         \* what that call returned

vars == <<conf, owned, metric, registry, gauges, promRegistry, promValue, pc, todo, cur,
          value, g, panicked, started, tickChan, appSteps, manualCalls, recording,
          hist, call, result>>

(***************************************************************************)
(* gaugeFromNameAndValue's names.                                          *)
(***************************************************************************)
\* key := fmt.Sprintf("%s_%s_%s", c.Namespace, c.Subsystem, name)
Key(name) == Sprintf3(conf.Namespace, conf.Subsystem, name)

\* the fully-qualified name of prometheus.NewGauge(GaugeOpts{...})
FQName(name) ==
    Sprintf3(Normalize(conf.keyNormalizer, conf.Namespace),
             Normalize(conf.keyNormalizer, conf.Subsystem),
             Normalize(conf.keyNormalizer, name))

\* mutant: Help is the normalized name
NewGaugeNormalizedHelp(name) ==
    [fqName |-> FQName(name), help |-> Normalize(conf.keyNormalizer, name)]

\* prometheus.NewGauge(prometheus.GaugeOpts{Namespace, Subsystem, Name, Help})
NewGauge(name) == [fqName |-> FQName(name), help |-> name]

Registered(fq) == \E d \in promRegistry : d.fqName = fq

PassPcs == {"each", "register", "set"}
InPass(p) == pc[p] \in PassPcs
Rest(p) == IF p = "sched" THEN "wait" ELSE "idle"
Other(p) == IF p = "sched" THEN "manual" ELSE "sched"

(***************************************************************************)
(* History.                                                                *)
(***************************************************************************)
NoPass == [snap |-> {}, upserted |-> {}, failed |-> {}, fresh |-> {}]

InitHist ==
    [ticks |-> 0, dropped |-> 0, schedStarted |-> 0, schedActive |-> 0,
     staleTick |-> FALSE, backToBack |-> FALSE,
     passesDone |-> 0, regChanged |-> FALSE, overlap |-> FALSE,
     panicName |-> NoName, rets |-> {},
     regs |-> [n \in Names |-> 0],
     sets |-> [n \in Names |-> 0],
     pass |-> [p \in Procs |-> NoPass]]

Record(h) == IF recording THEN h ELSE hist

Inc1(f, n) == [f EXCEPT ![n] = @ + 1]

(***************************************************************************)
(* Init: the state NewPrometheusProvider leaves, for any options that it   *)
(* accepts and any source registry the application has filled.             *)
(***************************************************************************)
InitConf(setters) ==
    /\ NewPrometheusProvider(TestNamespace, TestSubsystem, setters).err = "nil"
    /\ conf = NewPrometheusProvider(TestNamespace, TestSubsystem, setters).conf

InitProg ==
    /\ \E run \in Runs : InitConf(run.setters) /\ owned = run.owned
    /\ metric = [n \in Names |-> NewMetric(KindOf(n))]
    /\ registry = owned
    /\ gauges = <<>>
    /\ promRegistry = {}
    /\ promValue = <<>>
    /\ pc = [p \in Procs |-> IF p = "sched" THEN "off" ELSE "idle"]
    /\ todo = [p \in Procs |-> {}]
    /\ cur = [p \in Procs |-> NoName]
    /\ value = [p \in Procs |-> 0]
    /\ g = [p \in Procs |-> NoGauge]
    /\ panicked = FALSE
    /\ started = "no"
    /\ tickChan = 0
    /\ appSteps = 0
    /\ manualCalls = 0
    /\ hist = InitHist

\* no call of a function of the package on its own is under way
NoCall == [fn |-> "none", arg |-> <<>>, done |-> FALSE]
NoResult == [val |-> 0, err |-> "nil"]

Init == InitProg /\ recording = TRUE /\ call = NoCall /\ result = NoResult

(***************************************************************************)
(* One pass: UpdatePrometheusMetricsOnce, by thread p.                     *)
(***************************************************************************)
\* c.registry.Each(func...): Each iterates over a copy of the registered entries
BeginPass(p) ==
    /\ todo' = [todo EXCEPT ![p] = registry]
    /\ pc' = [pc EXCEPT ![p] = "each"]

HistBeginPass(p) ==
    [hist EXCEPT !.pass[p] = [NoPass EXCEPT !.snap = registry],
                 !.overlap = @ \/ InPass(Other(p))]

\* mutant: g.Set(val) only for a gauge that is new
CallbackSetOnlyNew(p) ==
    /\ ~panicked
    /\ pc[p] = "each"
    /\ \E name \in todo[p] :
         LET r == Convert(conf.converter, name, metric[name])
         IN /\ todo' = [todo EXCEPT ![p] = @ \ {name}]
            /\ IF r.err # "nil" \/ Key(name) \in DOMAIN gauges
               THEN UNCHANGED <<pc, cur, value, g>>
               ELSE /\ cur' = [cur EXCEPT ![p] = name]
                    /\ value' = [value EXCEPT ![p] = r.val]
                    /\ pc' = [pc EXCEPT ![p] = "register"]
                    /\ g' = [g EXCEPT ![p] = NewGauge(name)]
            /\ hist' = Record(
                 IF r.err = "nil"
                 THEN [hist EXCEPT !.pass[p].fresh = @ \cup {name}]
                 ELSE [hist EXCEPT !.pass[p].failed = @ \cup {name}])
    /\ UNCHANGED <<call, result, conf, owned, metric, registry, gauges, promRegistry, promValue,
                   panicked, started, tickChan, appSteps, manualCalls, recording>>

\* mutant: a conversion error ends the pass
CallbackAbortOnError(p) ==
    /\ ~panicked
    /\ pc[p] = "each"
    /\ \E name \in todo[p] :
         LET r == Convert(conf.converter, name, metric[name])
         IN /\ IF r.err # "nil"
               THEN /\ todo' = [todo EXCEPT ![p] = {}]
                    /\ UNCHANGED <<pc, cur, value, g>>
               ELSE /\ todo' = [todo EXCEPT ![p] = @ \ {name}]
                    /\ cur' = [cur EXCEPT ![p] = name]
                    /\ value' = [value EXCEPT ![p] = r.val]
                    /\ IF Key(name) \in DOMAIN gauges
                       THEN /\ pc' = [pc EXCEPT ![p] = "set"]
                            /\ g' = [g EXCEPT ![p] = gauges[Key(name)]]
                       ELSE /\ pc' = [pc EXCEPT ![p] = "register"]
                            /\ g' = [g EXCEPT ![p] = NewGauge(name)]
            /\ hist' = Record(
                 IF r.err = "nil"
                 THEN [hist EXCEPT !.pass[p].fresh = @ \cup {name}]
                 ELSE [hist EXCEPT !.pass[p].failed = @ \cup {name}])
    /\ UNCHANGED <<call, result, conf, owned, metric, registry, gauges, promRegistry, promValue,
                   panicked, started, tickChan, appSteps, manualCalls, recording>>

\* mutant: a metric that does not convert is unregistered from the source registry
CallbackUnregistersFailed(p) ==
    /\ ~panicked
    /\ pc[p] = "each"
    /\ \E name \in todo[p] :
         LET r == Convert(conf.converter, name, metric[name])
         IN /\ todo' = [todo EXCEPT ![p] = @ \ {name}]
            /\ IF r.err # "nil"
               THEN /\ registry' = registry \ {name}
                    /\ UNCHANGED <<pc, cur, value, g>>
               ELSE /\ cur' = [cur EXCEPT ![p] = name]
                    /\ value' = [value EXCEPT ![p] = r.val]
                    /\ UNCHANGED registry
                    /\ IF Key(name) \in DOMAIN gauges
                       THEN /\ pc' = [pc EXCEPT ![p] = "set"]
                            /\ g' = [g EXCEPT ![p] = gauges[Key(name)]]
                       ELSE /\ pc' = [pc EXCEPT ![p] = "register"]
                            /\ g' = [g EXCEPT ![p] = NewGauge(name)]
            /\ hist' = Record(
                 IF r.err = "nil"
                 THEN [hist EXCEPT !.pass[p].fresh = @ \cup {name}]
                 ELSE [hist EXCEPT !.pass[p].failed = @ \cup {name}])
    /\ UNCHANGED <<call, result, conf, owned, metric, gauges, promRegistry, promValue,
                   panicked, started, tickChan, appSteps, manualCalls, recording>>

\* value, err := c.converter(name, i); if err == nil { c.gaugeFromNameAndValue(
\* name, value) }, up to g, ok := c.gauges[key]; if !ok { g = prometheus.NewGauge(
Callback(p) ==
    /\ ~panicked
    /\ pc[p] = "each"
    /\ \E name \in todo[p] :
         LET r == Convert(conf.converter, name, metric[name])
         IN /\ todo' = [todo EXCEPT ![p] = @ \ {name}]
            /\ IF r.err # "nil"
               THEN UNCHANGED <<pc, cur, value, g>>
               ELSE /\ cur' = [cur EXCEPT ![p] = name]
                    /\ value' = [value EXCEPT ![p] = r.val]
                    /\ IF Key(name) \in DOMAIN gauges
                       THEN /\ pc' = [pc EXCEPT ![p] = "set"]
                            /\ g' = [g EXCEPT ![p] = gauges[Key(name)]]
                       ELSE /\ pc' = [pc EXCEPT ![p] = "register"]
                            /\ g' = [g EXCEPT ![p] = NewGauge(name)]
            /\ hist' = Record(
                 IF r.err = "nil"
                 THEN [hist EXCEPT !.pass[p].fresh = @ \cup {name}]
                 ELSE [hist EXCEPT !.pass[p].failed = @ \cup {name}])
    /\ UNCHANGED <<call, result, conf, owned, metric, registry, gauges, promRegistry, promValue,
                   panicked, started, tickChan, appSteps, manualCalls, recording>>

\* mutant: Register in place of MustRegister, its error dropped
MustRegisterSwallow(p) ==
    /\ ~panicked
    /\ pc[p] = "register"
    /\ promRegistry' = promRegistry \cup {g[p]}
    /\ promValue' = IF Registered(g[p].fqName) THEN promValue
                    ELSE (g[p].fqName :> 0) @@ promValue
    /\ gauges' = (Key(cur[p]) :> g[p]) @@ gauges
    /\ pc' = [pc EXCEPT ![p] = "set"]
    /\ hist' = Record([hist EXCEPT !.regs = Inc1(@, cur[p])])
    /\ UNCHANGED <<call, result, conf, owned, metric, registry, todo, cur, value, g, started,
                   tickChan, appSteps, manualCalls, recording, panicked>>

\* mutant: c.gauges[key] = g before c.promRegistry.MustRegister(g)
MustRegisterStoresFirst(p) ==
    /\ ~panicked
    /\ pc[p] = "register"
    /\ gauges' = (Key(cur[p]) :> g[p]) @@ gauges
    /\ IF Registered(g[p].fqName)
       THEN /\ panicked' = TRUE
            /\ UNCHANGED <<promRegistry, promValue, pc>>
            /\ hist' = Record([hist EXCEPT !.panicName = cur[p]])
       ELSE /\ promRegistry' = promRegistry \cup {g[p]}
            /\ promValue' = (g[p].fqName :> 0) @@ promValue
            /\ pc' = [pc EXCEPT ![p] = "set"]
            /\ UNCHANGED panicked
            /\ hist' = Record([hist EXCEPT !.regs = Inc1(@, cur[p])])
    /\ UNCHANGED <<call, result, conf, owned, metric, registry, todo, cur, value, g,
                   started, tickChan, appSteps, manualCalls, recording>>

\* c.promRegistry.MustRegister(g): Register, and panic on its error;
\* then c.gauges[key] = g
MustRegister(p) ==
    /\ ~panicked
    /\ pc[p] = "register"
    /\ IF Registered(g[p].fqName)
       THEN /\ panicked' = TRUE
            /\ UNCHANGED <<promRegistry, promValue, gauges, pc>>
            /\ hist' = Record([hist EXCEPT !.panicName = cur[p]])
       ELSE /\ promRegistry' = promRegistry \cup {g[p]}
            /\ promValue' = (g[p].fqName :> 0) @@ promValue
            /\ gauges' = (Key(cur[p]) :> g[p]) @@ gauges
            /\ pc' = [pc EXCEPT ![p] = "set"]
            /\ UNCHANGED panicked
            /\ hist' = Record([hist EXCEPT !.regs = Inc1(@, cur[p])])
    /\ UNCHANGED <<call, result, conf, owned, metric, registry, todo, cur, value, g, started,
                   tickChan, appSteps, manualCalls, recording>>

\* mutant: g.Add(val) in place of g.Set(val)
SetAdds(p) ==
    /\ ~panicked
    /\ pc[p] = "set"
    /\ promValue' = [promValue EXCEPT ![g[p].fqName] = @ + value[p]]
    /\ pc' = [pc EXCEPT ![p] = "each"]
    /\ cur' = [cur EXCEPT ![p] = NoName]
    /\ value' = [value EXCEPT ![p] = 0]
    /\ g' = [g EXCEPT ![p] = NoGauge]
    /\ hist' = Record([hist EXCEPT !.sets = Inc1(@, cur[p]),
                                   !.pass[p].upserted = @ \cup {cur[p]}])
    /\ UNCHANGED <<call, result, conf, owned, metric, registry, gauges, promRegistry, todo,
                   panicked, started, tickChan, appSteps, manualCalls, recording>>

\* g.Set(val), and the callback returns: its locals are gone
Set(p) ==
    /\ ~panicked
    /\ pc[p] = "set"
    /\ promValue' = [promValue EXCEPT ![g[p].fqName] = value[p]]
    /\ pc' = [pc EXCEPT ![p] = "each"]
    /\ cur' = [cur EXCEPT ![p] = NoName]
    /\ value' = [value EXCEPT ![p] = 0]
    /\ g' = [g EXCEPT ![p] = NoGauge]
    /\ hist' = Record([hist EXCEPT !.sets = Inc1(@, cur[p]),
                                   !.pass[p].upserted = @ \cup {cur[p]}])
    /\ UNCHANGED <<call, result, conf, owned, metric, registry, gauges, promRegistry, todo,
                   panicked, started, tickChan, appSteps, manualCalls, recording>>

\* mutant: the loop of UpdatePrometheusMetrics ends after its first pass
ReturnEndsLoop(p) ==
    /\ ~panicked
    /\ pc[p] = "each"
    /\ todo[p] = {}
    /\ pc' = [pc EXCEPT ![p] = IF p = "sched" THEN "off" ELSE "idle"]
    /\ hist' = Record([hist EXCEPT
                 !.passesDone = @ + 1,
                 !.rets = @ \cup {"nil"},
                 !.schedActive = IF p = "sched" THEN @ - 1 ELSE @,
                 !.pass[p] = NoPass])
    /\ UNCHANGED <<call, result, conf, owned, metric, registry, gauges, promRegistry, promValue, todo,
                   cur, value, g, panicked, started, tickChan, appSteps,
                   manualCalls, recording>>

\* mutant: a pass ends by dropping the gauges of the metrics that have left the
\* source registry
ReturnPrunes(p) ==
    /\ ~panicked
    /\ pc[p] = "each"
    /\ todo[p] = {}
    /\ pc' = [pc EXCEPT ![p] = Rest(p)]
    /\ LET kept == {key \in DOMAIN gauges : \E name \in registry : key = Key(name)}
       IN /\ gauges' = [key \in kept |-> gauges[key]]
          /\ promRegistry' = {gauges[key] : key \in kept}
          /\ promValue' = [fq \in {gauges[key].fqName : key \in kept} |-> promValue[fq]]
    /\ hist' = Record([hist EXCEPT
                 !.passesDone = @ + 1,
                 !.rets = @ \cup {"nil"},
                 !.schedActive = IF p = "sched" THEN @ - 1 ELSE @,
                 !.pass[p] = NoPass])
    /\ UNCHANGED <<call, result, conf, owned, metric, registry, todo, cur, value, g,
                   panicked, started, tickChan, appSteps, manualCalls, recording>>

\* Each has visited every entry: return nil
Return(p) ==
    /\ ~panicked
    /\ pc[p] = "each"
    /\ todo[p] = {}
    /\ pc' = [pc EXCEPT ![p] = Rest(p)]
    /\ hist' = Record([hist EXCEPT
                 !.passesDone = @ + 1,
                 !.rets = @ \cup {"nil"},
                 !.schedActive = IF p = "sched" THEN @ - 1 ELSE @,
                 !.pass[p] = NoPass])
    /\ UNCHANGED <<call, result, conf, owned, metric, registry, gauges, promRegistry, promValue, todo,
                   cur, value, g, panicked, started, tickChan, appSteps,
                   manualCalls, recording>>

(***************************************************************************)
(* The scheduler: UpdatePrometheusMetrics.                                 *)
(***************************************************************************)
\* mutant: the caller waits for the goroutine it started
StartGoAndWait ==
    /\ ~panicked
    /\ started = "no"
    /\ pc["manual"] = "idle"
    /\ started' = "go"
    /\ pc' = [pc EXCEPT !["sched"] = "wait", !["manual"] = "blocked"]
    /\ UNCHANGED <<call, result, conf, owned, metric, registry, gauges, promRegistry, promValue, todo,
                   cur, value, g, panicked, tickChan, appSteps, manualCalls,
                   recording, hist>>

\* mutant: the loop runs a pass before it waits for the first tick
StartGoPassFirst ==
    /\ ~panicked
    /\ started = "no"
    /\ pc["manual"] = "idle"
    /\ started' = "go"
    /\ todo' = [todo EXCEPT !["sched"] = registry]
    /\ pc' = [pc EXCEPT !["sched"] = "each"]
    /\ hist' = Record([HistBeginPass("sched") EXCEPT
                 !.schedStarted = @ + 1,
                 !.schedActive = @ + 1])
    /\ UNCHANGED <<call, result, conf, owned, metric, registry, gauges, promRegistry,
                   promValue, cur, value, g, panicked, tickChan, appSteps, manualCalls,
                   recording>>

\* go pClient.UpdatePrometheusMetrics(): the loop runs in a goroutine of its own
StartGo ==
    /\ ~panicked
    /\ started = "no"
    /\ pc["manual"] = "idle"
    /\ started' = "go"
    /\ pc' = [pc EXCEPT !["sched"] = "wait"]
    /\ UNCHANGED <<call, result, conf, owned, metric, registry, gauges, promRegistry, promValue, todo,
                   cur, value, g, panicked, tickChan, appSteps, manualCalls,
                   recording, hist>>

\* pClient.UpdatePrometheusMetrics(): the caller itself runs the loop
StartInline ==
    /\ ~panicked
    /\ started = "no"
    /\ pc["manual"] = "idle"
    /\ started' = "inline"
    /\ pc' = [pc EXCEPT !["sched"] = "wait", !["manual"] = "blocked"]
    /\ UNCHANGED <<call, result, conf, owned, metric, registry, gauges, promRegistry, promValue, todo,
                   cur, value, g, panicked, tickChan, appSteps, manualCalls,
                   recording, hist>>

\* mutant: every tick is queued
TimerFireQueues ==
    /\ ~panicked
    /\ started # "no"
    /\ conf.FlushInterval > 0
    /\ recording => hist.ticks < MaxTicks
    /\ tickChan' = tickChan + 1
    /\ hist' = Record([hist EXCEPT
                 !.ticks = @ + 1,
                 !.staleTick = IF tickChan < TickBuffer THEN InPass("sched") ELSE @])
    /\ UNCHANGED <<call, result, conf, owned, metric, registry, gauges, promRegistry, promValue, pc,
                   todo, cur, value, g, panicked, started, appSteps, manualCalls,
                   recording>>

\* the runtime's timer of time.Tick(c.FlushInterval) fires: a send that does not
\* block, into a channel that buffers TickBuffer ticks; the tick is dropped when
\* the buffer is full.  time.Tick returns a nil channel for an interval <= 0.
TimerFire ==
    /\ ~panicked
    /\ started # "no"
    /\ conf.FlushInterval > 0
    /\ recording => hist.ticks < MaxTicks
    /\ tickChan' = IF tickChan < TickBuffer THEN tickChan + 1 ELSE tickChan
    /\ hist' = Record([hist EXCEPT
                 !.ticks = @ + 1,
                 !.dropped = IF tickChan < TickBuffer THEN @ ELSE @ + 1,
                 !.staleTick = IF tickChan < TickBuffer THEN InPass("sched") ELSE @])
    /\ UNCHANGED <<call, result, conf, owned, metric, registry, gauges, promRegistry, promValue, pc,
                   todo, cur, value, g, panicked, started, appSteps, manualCalls,
                   recording>>

\* mutant: each tick starts a pass, whether or not the one before has returned
SchedRecvNoWait ==
    /\ ~panicked
    /\ pc["sched"] \in {"wait"} \cup PassPcs
    /\ tickChan > 0
    /\ tickChan' = tickChan - 1
    /\ BeginPass("sched")
    /\ hist' = Record([HistBeginPass("sched") EXCEPT
                 !.schedStarted = @ + 1,
                 !.schedActive = @ + 1,
                 !.backToBack = @ \/ hist.staleTick,
                 !.staleTick = FALSE])
    /\ UNCHANGED <<call, result, conf, owned, metric, registry, gauges, promRegistry, promValue, cur,
                   value, g, panicked, started, appSteps, manualCalls, recording>>

\* for _ = range time.Tick(c.FlushInterval) { c.UpdatePrometheusMetricsOnce() }
SchedRecv ==
    /\ ~panicked
    /\ pc["sched"] = "wait"
    /\ tickChan > 0
    /\ tickChan' = tickChan - 1
    /\ BeginPass("sched")
    /\ hist' = Record([HistBeginPass("sched") EXCEPT
                 !.schedStarted = @ + 1,
                 !.schedActive = @ + 1,
                 !.backToBack = @ \/ hist.staleTick,
                 !.staleTick = FALSE])
    /\ UNCHANGED <<call, result, conf, owned, metric, registry, gauges, promRegistry, promValue, cur,
                   value, g, panicked, started, appSteps, manualCalls, recording>>

\* the caller calls pClient.UpdatePrometheusMetricsOnce() itself
ManualCall ==
    /\ ~panicked
    /\ pc["manual"] = "idle"
    /\ manualCalls < MaxManual
    /\ manualCalls' = manualCalls + 1
    /\ BeginPass("manual")
    /\ hist' = Record(HistBeginPass("manual"))
    /\ UNCHANGED <<call, result, conf, owned, metric, registry, gauges, promRegistry, promValue, cur,
                   value, g, panicked, started, tickChan, appSteps, recording>>

(***************************************************************************)
(* The host application: it owns the source registry and its metrics.      *)
(***************************************************************************)
HistUpdated(name) ==
    [hist EXCEPT !.pass = [p \in Procs |-> [hist.pass[p] EXCEPT !.fresh = @ \ {name}]]]

NextUpdate == Updates[(appSteps % Len(Updates)) + 1]

AppStep ==
    /\ ~panicked
    /\ appSteps < MaxAppSteps
    /\ appSteps' = appSteps + 1
    /\ UNCHANGED <<call, result, conf, owned, gauges, promRegistry, promValue, pc, todo, cur, value, g,
                   panicked, started, tickChan, manualCalls, recording>>

\* metricsRegistry.Register(name, metric)
AppRegister ==
    /\ AppStep
    /\ \E name \in owned \ registry : registry' = registry \cup {name}
    /\ hist' = Record([hist EXCEPT !.regChanged = TRUE])
    /\ UNCHANGED metric

\* metricsRegistry.Unregister(name)
AppUnregister ==
    /\ AppStep
    /\ \E name \in registry : registry' = registry \ {name}
    /\ hist' = Record([hist EXCEPT !.regChanged = TRUE])
    /\ UNCHANGED metric

\* cntr.Inc(d)
AppInc ==
    /\ AppStep
    /\ \E name \in owned :
         /\ metric[name].kind = "Counter"
         /\ metric' = [metric EXCEPT ![name].v = @ + NextUpdate]
         /\ hist' = Record(HistUpdated(name))
    /\ UNCHANGED registry

\* gm.Update(v)
AppUpdate ==
    /\ AppStep
    /\ \E name \in owned :
         /\ metric[name].kind = "Gauge"
         /\ metric' = [metric EXCEPT ![name].v = NextUpdate]
         /\ hist' = Record(HistUpdated(name))
    /\ UNCHANGED registry

\* h.Update(v): one more sample in the histogram's sample
AppSample ==
    /\ AppStep
    /\ \E name \in owned :
         /\ metric[name].kind = "Histogram"
         /\ metric' = [metric EXCEPT ![name].v = Append(@, NextUpdate)]
         /\ hist' = Record(HistUpdated(name))
    /\ UNCHANGED registry

Next ==
    \/ StartGo
    \/ StartInline
    \/ TimerFire
    \/ SchedRecv
    \/ ManualCall
    \/ \E p \in Procs : Callback(p)
    \/ \E p \in Procs : MustRegister(p)
    \/ \E p \in Procs : Set(p)
    \/ \E p \in Procs : Return(p)
    \/ AppRegister
    \/ AppUnregister
    \/ AppInc
    \/ AppUpdate
    \/ AppSample

Spec == Init /\ [][Next]_vars

(***************************************************************************)
(* The scheduler without end: the history is not kept, the timer of        *)
(* time.Tick fires again and again, and the goroutine of the loop is       *)
(* scheduled whenever it can take a step.                                  *)
(***************************************************************************)
LiveInit == InitProg /\ recording = FALSE /\ call = NoCall /\ result = NoResult

Fairness ==
    /\ WF_vars(TimerFire)
    /\ WF_vars(SchedRecv)
    /\ WF_vars(Callback("sched"))
    /\ WF_vars(MustRegister("sched"))
    /\ WF_vars(Set("sched"))
    /\ WF_vars(Return("sched"))

LiveSpec == LiveInit /\ [][Next]_vars /\ Fairness

(***************************************************************************)
(* The package's functions on their own: DefaultMetricConverter, the two   *)
(* key normalizers and NewPrometheusProvider, each called once with an     *)
(* argument drawn from a bounded set, beside a program that has not moved. *)
(***************************************************************************)
progVars == <<conf, owned, metric, registry, gauges, promRegistry, promValue, pc, todo,
              cur, value, g, panicked, started, tickChan, appSteps, manualCalls,
              recording, hist>>

\* the characters the normalizers tell apart, and letters of both cases
Alphabet == {" ", ".", "-", "=", "_", "A", "a", "b"}
Strings == UNION {[1..n -> Alphabet] : n \in 0..MaxLen}

Normalizers == {"DefaultKeyNormalizer", "LowerCaseKeyNormalizer"}

\* the kinds of go-metrics whose metric object holds one number, and a kind
\* DefaultMetricConverter has no case for
ScalarKinds == {"Counter", "Gauge", "GaugeFloat64", "Healthcheck"}
RateKinds == {"Meter", "Timer"}
ConverterValues == {0, 2, 13, 15}
Samples == UNION {[1..n -> ConverterValues] : n \in 0..MaxSamples}

\* the options a caller may pass: the three of the package, and one that fails
SetterOptions ==
    {FlushRate(d) : d \in {-1, 0, 1, 2}}
      \cup {ConverterOpt("CustomConverter"),
            KeyNormalizerOpt("LowerCaseKeyNormalizer"),
            RejectOpt}
SetterSeqs == UNION {[1..n -> SetterOptions] : n \in 0..MaxSetters}

ConverterCall(name, m) ==
    [fn |-> "DefaultMetricConverter", arg |-> [name |-> name, m |-> m], done |-> FALSE]
NormalizerCall(normalizer, key) ==
    [fn |-> "Normalizer", arg |-> [normalizer |-> normalizer, key |-> key],
     done |-> FALSE]
ProviderCall(setters) ==
    [fn |-> "NewPrometheusProvider", arg |-> setters, done |-> FALSE]

LibInit ==
    /\ InitProg
    /\ owned = {NameGauge}
    /\ recording = TRUE
    /\ result = NoResult
    /\ \/ \E name \in Names, kind \in ScalarKinds, v \in ConverterValues :
            call = ConverterCall(name, [kind |-> kind, v |-> v])
       \/ \E name \in Names, samples \in Samples :
            call = ConverterCall(name, [kind |-> "Histogram", v |-> samples])
       \/ \E name \in Names, kind \in RateKinds, r1 \in ConverterValues,
              rm \in ConverterValues :
            call = ConverterCall(name,
                     [kind |-> kind, v |-> [Rate1 |-> r1, RateMean |-> rm]])
       \/ \E normalizer \in Normalizers, key \in Strings :
            call = NormalizerCall(normalizer, key)
       \/ \E setters \in SetterSeqs : call = ProviderCall(setters)

\* value, err := DefaultMetricConverter(name, i)
ApplyDefaultMetricConverter ==
    /\ call.fn = "DefaultMetricConverter"
    /\ ~call.done
    /\ result' = DefaultMetricConverter(call.arg.name, call.arg.m)
    /\ call' = [call EXCEPT !.done = TRUE]
    /\ UNCHANGED progVars

\* normalizer(key), and normalizer(normalizer(key))
ApplyNormalizer ==
    /\ call.fn = "Normalizer"
    /\ ~call.done
    /\ result' = [once |-> Normalize(call.arg.normalizer, call.arg.key),
                  twice |-> Normalize(call.arg.normalizer,
                                      Normalize(call.arg.normalizer, call.arg.key))]
    /\ call' = [call EXCEPT !.done = TRUE]
    /\ UNCHANGED progVars

\* conf, err := NewPrometheusProvider(r, "test", "subsys", promRegistry, setters...)
ApplyNewPrometheusProvider ==
    /\ call.fn = "NewPrometheusProvider"
    /\ ~call.done
    /\ result' = NewPrometheusProvider(TestNamespace, TestSubsystem, call.arg)
    /\ call' = [call EXCEPT !.done = TRUE]
    /\ UNCHANGED progVars

LibNext ==
    \/ ApplyDefaultMetricConverter
    \/ ApplyNormalizer
    \/ ApplyNewPrometheusProvider

LibSpec == LibInit /\ [][LibNext]_vars

(***************************************************************************)
(* What the claims speak of.                                               *)
(***************************************************************************)
\* MustRegister calls made for a name: those that succeeded and the one that panicked
Attempts(name) == hist.regs[name] + (IF hist.panicName = name THEN 1 ELSE 0)

\* the value the configured converter gives a metric now
CurrentValue(name) == Convert(conf.converter, name, metric[name]).val
ConvertsNow(name) == Convert(conf.converter, name, metric[name]).err = "nil"

\* a metric that converts whatever its state
AlwaysConverts(name) ==
    Convert(conf.converter, name, NewMetric(KindOf(name))).err = "nil"

Exposed(name) == Key(name) \in DOMAIN gauges /\ Registered(FQName(name))

\* thread p has visited every entry of its pass
PassFinished(p) == pc[p] = "each" /\ todo[p] = {}

Visited(p) == hist.pass[p].snap \ todo[p]

Collide(n1, n2) == n1 # n2 /\ FQName(n1) = FQName(n2)

(***************************************************************************)
(* C1.  After N >= 1 completed passes over an unchanged set of names, each *)
(* name that converts has been registered exactly once and set exactly N   *)
(* times, and the external registry holds exactly one gauge for it; no     *)
(* name is ever registered twice.                                          *)
(***************************************************************************)
C1_RegisteredOnceSetEveryPass ==
    /\ \A name \in Names : hist.regs[name] <= 1
    /\ (/\ ~panicked
        /\ ~hist.regChanged
        /\ \A p \in Procs : ~InPass(p)
        /\ hist.passesDone >= 1)
       => \A name \in registry :
            AlwaysConverts(name) =>
              /\ hist.regs[name] = 1
              /\ hist.sets[name] = hist.passesDone
              /\ Key(name) \in DOMAIN gauges
              /\ Cardinality({d \in promRegistry : d.fqName = FQName(name)}) = 1

C1_Witness ==
    /\ ~panicked
    /\ ~hist.regChanged
    /\ \A p \in Procs : ~InPass(p)
    /\ hist.passesDone >= 2
    /\ hist.sets[NameCounter] = hist.passesDone
    /\ hist.regs[NameCounter] = 1
    /\ metric[NameCounter].v > 0

(***************************************************************************)
(* C2.  Under concurrent passes of one Config the lookup-or-insert on the  *)
(* gauge cache is mutually exclusive: at most one registration is ever     *)
(* attempted for a raw key, and a duplicate-registration failure is only   *)
(* reached when another name maps to the same external identifier.         *)
(***************************************************************************)
C2_AtMostOneRegistrationPerKey ==
    /\ \A name \in Names : Attempts(name) <= 1
    /\ panicked => \E other \in owned : Collide(other, hist.panicName)

(***************************************************************************)
(* C3, as claimed.  Once a pass has visited a Histogram that has no        *)
(* samples, under the default converter, a gauge is registered for the     *)
(* histogram and exposes 0, and no conversion failure is recorded.         *)
(***************************************************************************)
VisitedEmptyHistogram(p, name) ==
    /\ conf.converter = "DefaultMetricConverter"
    /\ metric[name].kind = "Histogram"
    /\ metric[name].v = <<>>
    /\ name \in Visited(p)
    /\ pc[p] = "each"

C3_EmptyHistogramPublishedAsZero ==
    \A p \in Procs, name \in Names :
       VisitedEmptyHistogram(p, name) =>
         /\ name \notin hist.pass[p].failed
         /\ Exposed(name)
         /\ promValue[FQName(name)] = 0

(***************************************************************************)
(* C3, amended.  For a Histogram that has no samples the default converter *)
(* returns 0 together with a conversion error, so a pass skips it: no      *)
(* gauge is registered for it and no value is set.                         *)
(***************************************************************************)
C3_EmptyHistogramSkipped ==
    /\ DefaultMetricConverter(NameHistogram, NewMetric("Histogram")).err # "nil"
    /\ DefaultMetricConverter(NameHistogram, NewMetric("Histogram")).val = 0
    /\ \A p \in Procs, name \in Names :
         VisitedEmptyHistogram(p, name) =>
           /\ name \in hist.pass[p].failed
           /\ name \notin hist.pass[p].upserted
           /\ ~Exposed(name)
           /\ hist.regs[name] = 0
           /\ hist.sets[name] = 0

C3_Witness ==
    \E p \in Procs : VisitedEmptyHistogram(p, NameHistogram) /\ PassFinished(p)

(***************************************************************************)
(* C4.  A metric whose conversion fails is neither registered nor set and  *)
(* does not abort the pass: between two callbacks the metrics the pass has *)
(* upserted are exactly those it has visited and converted, so at its end  *)
(* every metric of the pass that converts has been upserted; and every     *)
(* pass returns nil.                                                       *)
(***************************************************************************)
C4_FailedConversionSkipped ==
    /\ \A p \in Procs :
         pc[p] = "each" =>
           /\ hist.pass[p].upserted = Visited(p) \ hist.pass[p].failed
           /\ hist.pass[p].failed \subseteq Visited(p)
    /\ \A name \in Names :
         ~AlwaysConverts(name) /\ ~ConvertsNow(name) =>
           hist.regs[name] = 0 /\ hist.sets[name] = 0 /\ ~Exposed(name)
    /\ hist.rets \subseteq {"nil"}

C4_Witness ==
    \E p \in Procs :
       /\ PassFinished(p)
       /\ NameHealthcheck \in hist.pass[p].failed
       /\ NameHistogram \in hist.pass[p].upserted
       /\ hist.regs[NameHealthcheck] = 0
       /\ hist.passesDone >= 1

(***************************************************************************)
(* C5.  Two distinct raw names of the application's metrics that the       *)
(* configured normalizer maps to one                                       *)
(* external identifier have different cache keys; the registration of the  *)
(* second fails and the failure is fatal: never both are registered or     *)
(* cached, and once both have been attempted the process has panicked.     *)
(***************************************************************************)
C5_CollisionIsFatal ==
    \A n1 \in owned, n2 \in owned :
       Collide(n1, n2) =>
         /\ Key(n1) # Key(n2)
         /\ hist.regs[n1] + hist.regs[n2] <= 1
         /\ ~(Key(n1) \in DOMAIN gauges /\ Key(n2) \in DOMAIN gauges)
         /\ \A p \in Procs : ~({n1, n2} \subseteq hist.pass[p].upserted)
         /\ (hist.regs[n1] = 1 /\ Attempts(n2) >= 1) => panicked
         /\ panicked /\ hist.panicName = n2 /\ hist.regs[n2] = 0 =>
              hist.sets[n2] = 0

C5_Witness ==
    /\ panicked
    /\ hist.panicName = NameGauge
    /\ hist.regs[NameCounter] = 1
    /\ Collide(NameCounter, NameGauge)
    /\ conf.keyNormalizer = "LowerCaseKeyNormalizer"

(***************************************************************************)
(* C6, as claimed.  The value a pass sets is the metric's value when the   *)
(* pass completes: whenever a pass sets a gauge, the gauge then exposes    *)
(* the metric's current converted value (15 after Inc(2) and Inc(13), 13   *)
(* after Update(2) and Update(13)), never an earlier one.                  *)
(***************************************************************************)
C6_SetExposesLatestValue ==
    [][\A p \in Procs :
         (pc[p] = "set" /\ pc'[p] = "each") =>
           promValue'[g[p].fqName] = CurrentValue(cur[p])]_vars

(***************************************************************************)
(* C6, amended.  The value a pass sets is the metric's converted value at  *)
(* the moment that pass read it: while the metric has not been updated     *)
(* since the read, the value the pass holds is the current one, and, when  *)
(* no two passes overlap, so is the value the gauge exposes once the pass  *)
(* has set it.                                                             *)
(***************************************************************************)
C6_SetExposesValueRead ==
    \A p \in Procs :
       /\ (pc[p] \in {"register", "set"} /\ cur[p] \in hist.pass[p].fresh)
            => value[p] = CurrentValue(cur[p])
       /\ ~hist.overlap =>
            \A name \in hist.pass[p].upserted \cap hist.pass[p].fresh :
               promValue[FQName(name)] = CurrentValue(name)

C6_Witness ==
    /\ ~hist.overlap
    /\ conf.converter = "DefaultMetricConverter"
    /\ \E p \in Procs :
         /\ PassFinished(p)
         /\ NameCounter \in hist.pass[p].upserted \cap hist.pass[p].fresh
         /\ metric[NameCounter].v = 15
         /\ promValue[FQName(NameCounter)] = 15
         /\ hist.sets[NameCounter] >= 2

(***************************************************************************)
(* C7.  Once UpdatePrometheusMetrics has been started with a positive      *)
(* interval, and unless a registration fails, the scheduler never stops:   *)
(* again and again a pass is running and again and again the loop waits    *)
(* for the next tick, and every metric that stays in the source registry   *)
(* and converts is eventually registered and exposed.                      *)
(***************************************************************************)
SchedulerOn == started # "no" /\ conf.FlushInterval > 0

C7_SchedulerNeverStops ==
    /\ []<>(panicked \/ ~SchedulerOn \/ InPass("sched"))
    /\ []<>(panicked \/ ~SchedulerOn \/ pc["sched"] = "wait")
    /\ \A name \in Names :
         []<>(\/ panicked
              \/ ~(SchedulerOn /\ name \in registry /\ ConvertsNow(name))
              \/ Exposed(name))

C7_Witness ==
    /\ SchedulerOn
    /\ ~panicked
    /\ manualCalls = 0
    /\ pc["sched"] = "wait"
    /\ NameHistogram \in registry
    /\ Exposed(NameHistogram)
    /\ promValue[FQName(NameHistogram)] = 13

(***************************************************************************)
(* C8.  Passes driven by the scheduler never overlap: at most one is in    *)
(* progress, it is the one the loop's thread is in, and every pass the     *)
(* scheduler started before it has returned.                               *)
(***************************************************************************)
C8_SchedulerPassesSequential ==
    /\ hist.schedActive \in {0, 1}
    /\ hist.schedActive = 1 <=> InPass("sched")
    /\ hist.schedStarted - hist.schedActive + manualCalls
         - (IF InPass("manual") THEN 1 ELSE 0) = hist.passesDone

C8_Witness ==
    /\ hist.schedStarted >= 2
    /\ InPass("sched")
    /\ tickChan = 1
    /\ hist.passesDone >= 1

(***************************************************************************)
(* C9, as claimed.  A tick that fires while a pass is running is not kept: *)
(* no pass starts on account of a tick that fired during the pass before   *)
(* it.                                                                     *)
(***************************************************************************)
C9_NoPassOnStaleTick == ~hist.backToBack

(***************************************************************************)
(* C9, amended.  Ticks are not stacked beyond one: the channel of          *)
(* time.Tick keeps at most one tick that fires while a pass is running,    *)
(* and the pass after it starts on that tick; every further tick is        *)
(* dropped and never made up for, so the passes started are the ticks      *)
(* fired less those dropped and the one still kept.                        *)
(***************************************************************************)
C9_OneTickKeptOthersDropped ==
    /\ tickChan \in 0..TickBuffer
    /\ hist.ticks = hist.schedStarted + tickChan + hist.dropped
    /\ hist.staleTick => tickChan > 0
    /\ (hist.dropped > 0) => hist.schedStarted < hist.ticks

C9_Witness ==
    /\ hist.dropped >= 1
    /\ hist.backToBack
    /\ hist.schedStarted = 2
    /\ hist.ticks = 3

C11_CustomConverterOverrides ==
    conf.converter = "CustomConverter" =>
      /\ \A p \in Procs :
           /\ hist.pass[p].failed = {}
           /\ pc[p] \in {"register", "set"} => value[p] = CustomConverterValue
      /\ \A name \in owned :
           hist.sets[name] >= 1 =>
             /\ Registered(FQName(name))
             /\ promValue[FQName(name)] = CustomConverterValue
      /\ \A fq \in DOMAIN promValue :
           \/ promValue[fq] = CustomConverterValue
           \/ /\ promValue[fq] = 0
              /\ \E p \in Procs : pc[p] = "set" /\ g[p].fqName = fq

C11_Witness ==
    /\ conf.converter = "CustomConverter"
    /\ hist.passesDone >= 1
    /\ hist.sets[NameHealthcheck] >= 1
    /\ metric[NameHistogram].v # <<>>
    /\ promValue[FQName(NameHealthcheck)] = CustomConverterValue

(***************************************************************************)
(* C12.  Every gauge in the cache and in the external registry is the one  *)
(* of a raw name: its key is the raw "test_subsys_<name>", its external    *)
(* name is "test_subsys_" and the normalized name ("Cn" stays "Cn" under   *)
(* the default normalizer and becomes "cn" under the lower-casing one,     *)
(* "a.b" and "a-b" become "a_b"), and its help is the raw name.            *)
(***************************************************************************)
C12_NormalizedNameRawHelpRawKey ==
    LET prefix == <<"t", "e", "s", "t", "_", "s", "u", "b", "s", "y", "s", "_">>
        lower == conf.keyNormalizer = "LowerCaseKeyNormalizer"
        external(name) ==
            CASE name = <<"C", "n">> -> IF lower THEN <<"c", "n">> ELSE <<"C", "n">>
              [] name = <<"c", "n">> -> <<"c", "n">>
              [] name = <<"a", ".", "b">> -> <<"a", "_", "b">>
              [] name = <<"a", "-", "b">> -> <<"a", "_", "b">>
        gauge(name) == [fqName |-> prefix \o external(name), help |-> name]
    IN /\ \A key \in DOMAIN gauges :
            \E name \in owned :
               /\ key = prefix \o name
               /\ gauges[key] = gauge(name)
               /\ gauges[key] \in promRegistry
       /\ \A d \in promRegistry : \E name \in owned : d = gauge(name)
       /\ \A p \in Procs : pc[p] = "register" => g[p] = gauge(cur[p])

C12_Witness ==
    /\ conf.keyNormalizer = "LowerCaseKeyNormalizer"
    /\ Key(NameCounter) \in DOMAIN gauges
    /\ gauges[Key(NameCounter)].help = <<"C", "n">>
    /\ gauges[Key(NameCounter)].fqName =
         <<"t", "e", "s", "t", "_", "s", "u", "b", "s", "y", "s", "_", "c", "n">>
    /\ hist.sets[NameCounter] >= 1

(***************************************************************************)
(* C13.  DefaultMetricConverter follows the table of kinds: the count of a *)
(* Counter, the value of a Gauge or GaugeFloat64, the last sample of a     *)
(* Histogram that has samples, the 1-minute rate of a Meter or Timer, and  *)
(* for any other kind an error that names the metric and its type.         *)
(***************************************************************************)
C13_DefaultConverterTable ==
    (call.fn = "DefaultMetricConverter" /\ call.done) =>
      LET name == call.arg.name
          m == call.arg.m
      IN /\ m.kind \in {"Counter", "Gauge", "GaugeFloat64"} =>
              result.err = "nil" /\ result.val = m.v
         /\ m.kind \in {"Meter", "Timer"} =>
              result.err = "nil" /\ result.val = m.v.Rate1
         /\ (m.kind = "Histogram" /\ Len(m.v) > 0) =>
              result.err = "nil" /\ result.val = m.v[Len(m.v)]
         /\ m.kind \notin {"Counter", "Gauge", "GaugeFloat64", "Histogram", "Meter",
                           "Timer"} =>
              /\ result.err = "unknown type"
              /\ result.metric = name
              /\ result.type = m.kind

C13_Witness ==
    /\ call.fn = "DefaultMetricConverter"
    /\ call.done
    /\ call.arg.m.kind = "Histogram"
    /\ call.arg.m.v = <<13, 2>>
    /\ result = [val |-> 2, err |-> "nil"]

(***************************************************************************)
(* C14.  Both normalizers are idempotent: applied to their own result they *)
(* give it back; and the result of the default one holds no space, '.',    *)
(* '-' or '='.                                                             *)
(***************************************************************************)
C14_NormalizersIdempotent ==
    (call.fn = "Normalizer" /\ call.done) =>
      /\ result.twice = result.once
      /\ \A i \in 1..Len(result.once) : result.once[i] \notin {" ", ".", "-", "="}
      /\ call.arg.normalizer = "LowerCaseKeyNormalizer" =>
           \A i \in 1..Len(result.once) : result.once[i] # "A"

C14_Witness ==
    /\ call.fn = "Normalizer"
    /\ call.done
    /\ call.arg.normalizer = "LowerCaseKeyNormalizer"
    /\ call.arg.key = <<"A", ".", "=">>
    /\ result.once = <<"a", "_", "_">>
    /\ result.twice = <<"a", "_", "_">>

(***************************************************************************)
(* C15.  Every Config NewPrometheusProvider returns has a positive flush   *)
(* interval: a call whose options carry FlushRate(d) with d <= 0 returns   *)
(* an error, and a call that returns no error returns a Config whose       *)
(* FlushInterval is positive.                                              *)
(***************************************************************************)
C15_FlushIntervalPositive ==
    (call.fn = "NewPrometheusProvider" /\ call.done) =>
      /\ (\E i \in 1..Len(call.arg) :
            call.arg[i].opt = "FlushRate" /\ call.arg[i].arg <= 0) =>
           result.err # "nil"
      /\ result.err = "nil" => result.conf.FlushInterval > 0

(***************************************************************************)
(* C16.  NewPrometheusProvider calls the setters in the order given and    *)
(* fails closed.  If a setter fails, the call returns that error and no    *)
(* Config, and it has called the setters up to the failing one and none    *)
(* after it.  If none fails, it has called them all and returns the Config *)
(* in which each option has the argument of the last setter for it, or its *)
(* default (15s, DefaultMetricConverter, DefaultKeyNormalizer) if there is *)
(* none, beside the namespace and subsystem it was given.                  *)
(***************************************************************************)
C16_SettersInOrderFailClosed ==
    (call.fn = "NewPrometheusProvider" /\ call.done) =>
      LET setters == call.arg
          failing == {i \in 1..Len(setters) : setters[i].opt = "Reject"}
          first == CHOOSE i \in failing : \A j \in failing : i <= j
          at(opt) == {i \in 1..Len(setters) : setters[i].opt = opt}
          last(opt) == CHOOSE i \in at(opt) : \A j \in at(opt) : j <= i
          final(opt, default) ==
              IF at(opt) = {} THEN default ELSE setters[last(opt)].arg
      IN IF failing # {}
         THEN /\ result.err = "rejected"
              /\ result.conf = "nil"
              /\ result.applied = SubSeq(setters, 1, first)
         ELSE /\ result.err = "nil"
              /\ result.applied = setters
              /\ result.conf =
                   [Namespace |-> <<"t", "e", "s", "t">>,
                    Subsystem |-> <<"s", "u", "b", "s", "y", "s">>,
                    FlushInterval |-> final("FlushRate", 15),
                    converter |-> final("Converter", "DefaultMetricConverter"),
                    keyNormalizer |-> final("KeyNormalizer", "DefaultKeyNormalizer")]

C16_Witness ==
    /\ call.fn = "NewPrometheusProvider"
    /\ call.done
    /\ call.arg = <<FlushRate(2), RejectOpt, ConverterOpt("CustomConverter")>>
    /\ result.err = "rejected"
    /\ result.applied = <<FlushRate(2), RejectOpt>>

(***************************************************************************)
(* C17.  The step in which a registration fails, and every step after it,  *)
(* leaves the gauge cache, the external registry and the gauges' values    *)
(* as they are: the failing key is not stored and no value is set.  The    *)
(* failing upsert is still at its registration, its pass has not set the   *)
(* metric, the entries its pass had still to visit stay unvisited, no      *)
(* metric is registered or set any more and no pass starts.                *)
(***************************************************************************)
C17_RegistrationFailureStopsProgress ==
    [][panicked' =>
         /\ gauges' = gauges
         /\ promRegistry' = promRegistry
         /\ promValue' = promValue
         /\ todo' = todo
         /\ hist'.regs = hist.regs
         /\ hist'.sets = hist.sets
         /\ hist'.schedStarted = hist.schedStarted
         /\ hist'.passesDone = hist.passesDone
         /\ \E p \in Procs :
              /\ pc'[p] = "register"
              /\ cur'[p] = hist'.panicName
              /\ cur'[p] \notin hist'.pass[p].upserted]_vars

C17_Witness ==
    /\ panicked
    /\ pc["sched"] = "register"
    /\ cur["sched"] = hist.panicName
    /\ todo["sched"] # {}
    /\ Key(cur["sched"]) \notin DOMAIN gauges
    /\ tickChan = 1

(***************************************************************************)
(* C18.  The gauge cache and the external registry only grow: no step      *)
(* removes or replaces a cached gauge or a registered one, and a gauge's   *)
(* value changes only when a pass that found its metric in the source      *)
(* registry and converted it sets it, so it keeps its last value through   *)
(* every pass in which the metric is absent or does not convert.  A metric *)
(* whose key is cached is never registered again: its pass takes the       *)
(* cached gauge.                                                           *)
(***************************************************************************)
C18_CacheOnlyGrows ==
    [][/\ \A key \in DOMAIN gauges :
            key \in DOMAIN gauges' /\ gauges'[key] = gauges[key]
       /\ promRegistry \subseteq promRegistry'
       /\ \A fq \in DOMAIN promValue :
            /\ fq \in DOMAIN promValue'
            /\ promValue'[fq] # promValue[fq] =>
                 \E p \in Procs :
                    /\ pc[p] = "set" /\ pc'[p] = "each"
                    /\ g[p].fqName = fq
                    /\ cur[p] \in hist.pass[p].snap
                    /\ promValue'[fq] = value[p]
                    /\ hist'.sets[cur[p]] = hist.sets[cur[p]] + 1
       /\ \A p \in Procs :
            /\ (pc[p] = "each" /\ pc'[p] = "register") =>
                 Key(cur'[p]) \notin DOMAIN gauges
            /\ (pc[p] = "each" /\ pc'[p] = "set") =>
                 /\ Key(cur'[p]) \in DOMAIN gauges
                 /\ g'[p] = gauges[Key(cur'[p])]
                 /\ hist'.regs = hist.regs
       /\ \A name \in owned : hist'.regs[name] <= 1]_vars

C18_Witness ==
    /\ NameCounter \notin registry
    /\ hist.passesDone >= 2
    /\ hist.sets[NameCounter] = 1
    /\ Key(NameCounter) \in DOMAIN gauges
    /\ Registered(FQName(NameCounter))
    /\ promValue[FQName(NameCounter)] = 2

(***************************************************************************)
(* C19.  A pass only reads the source registry and the configuration: a    *)
(* step of a pass (one that moves a thread of execution, visits an entry,  *)
(* or changes the gauge cache, the external registry or a gauge's value)   *)
(* leaves the set of source metrics, their values and the Config's         *)
(* namespace, subsystem, flush interval, converter and normalizer as they  *)
(* are; and no step at all changes the Config's fields.                    *)
(***************************************************************************)
C19_PassOnlyReadsSourceAndConfig ==
    [][/\ conf' = conf
       /\ (\/ pc' # pc
           \/ todo' # todo
           \/ gauges' # gauges
           \/ promRegistry' # promRegistry
           \/ promValue' # promValue) =>
            /\ registry' = registry
            /\ metric' = metric
            /\ owned' = owned]_vars

C19_Witness ==
    /\ hist.passesDone >= 2
    /\ NameHealthcheck \in registry
    /\ hist.sets[NameHistogram] >= 2
    /\ metric[NameHistogram].v = <<2, 13>>
    /\ conf.converter = "DefaultMetricConverter"
    /\ conf.FlushInterval = 1

(***************************************************************************)
(* C20.  The scheduler runs no pass at start: it has started no more       *)
(* passes than ticks have fired, and as long as no tick has fired and the  *)
(* caller has run no pass of its own, the scheduler is in no pass, the     *)
(* gauge cache and the external registry are empty and no value is set.    *)
(***************************************************************************)
C20_NoPassBeforeFirstTick ==
    /\ hist.schedStarted <= hist.ticks
    /\ (hist.ticks = 0 /\ manualCalls = 0) =>
         /\ ~InPass("sched")
         /\ hist.schedStarted = 0
         /\ gauges = <<>>
         /\ promRegistry = {}
         /\ promValue = <<>>
         /\ \A name \in Names : hist.regs[name] = 0 /\ hist.sets[name] = 0

C20_Witness ==
    /\ started = "go"
    /\ pc["sched"] = "wait"
    /\ hist.ticks = 0
    /\ manualCalls = 0
    /\ appSteps = MaxAppSteps
    /\ NameCounter \in registry
    /\ metric[NameCounter].v = 15
    /\ promRegistry = {}

====
